---- MODULE Spec2Model ----
(***************************************************************************)
(* Role based access control of the datalink4tj backend: the permission    *)
(* check of models/user.py, the route access check of apis/routes.py, the  *)
(* explicit grant table written by services/route_service.py and by the    *)
(* data migration db/migrations/migrate_route_permissions_data.py, and the *)
(* role registry of services/permission_service.py.                        *)
(*                                                                         *)
(* Encoding of Python values:                                              *)
(*   None             the string "None" (ids of departments are strings)   *)
(*   a str            the sequence of its ":"-separated parts, so that     *)
(*                    "QA:READ" is <<"QA","READ">> and "*" is <<"*">>      *)
(*   a JSON value     a record tagged by t: absent (key missing), null,    *)
(*                    bool, int, str, list, obj                            *)
(*   role names       ASCII stand-ins; SUPER_ADMIN_ROLE stands for the     *)
(*                    literal of models/user.py line 10                    *)
(***************************************************************************)
EXTENDS Integers, Sequences, FiniteSets, TLC

VARIABLES
    roles,              \* table roles: id -> [name, permissions]
    users,              \* table users (+ user_role): id -> [is_active, department_id, roles]
    routes,             \* table routes: id -> [meta]
    route_permissions,  \* table route_permissions: <<role_id, route_id>> -> number of rows
    uix_role_route,     \* whether the unique index on (role_id, route_id) was created
    response,           \* what the last handler returned
    sessions,           \* the requests in flight: session -> what it has read and done so far
    permissions         \* table permissions: the rows [module, level, department_id]

vars == <<roles, users, routes, route_permissions, uix_role_route, response, sessions, permissions>>

-----------------------------------------------------------------------------
(* Bounds of the model *)

MaxRole == 3

RoleIds == 1..MaxRole
RouteIds == {1, 2}
UnknownRoleId == MaxRole + 1
UserIds == {"admin", "alice"}
DeptIds == {"D1", "D2"}
None == "None"

-----------------------------------------------------------------------------
(* models/user.py, models/permission.py *)

SUPER_ADMIN_ROLE == "super_admin"

RoleNames == <<SUPER_ADMIN_ROLE, "Inspector", "Other", "Auditor", "Guest", "Clerk">>

PermissionLevel == {"READ", "WRITE", "ADMIN", "SUPER_ADMIN"}

Module == {"USER", "DEPARTMENT", "EHS", "QA", "EVENT", "MAINT", "ACTIVITY", "ROUTE", "ALL"}

DepartmentName == [d \in DeptIds |-> IF d = "D1" THEN "QA" ELSE "EHS"]

get_level_value_unknown_highest(level) ==
    CASE level = "READ" -> 1
      [] level = "WRITE" -> 2
      [] level = "ADMIN" -> 3
      [] level = "SUPER_ADMIN" -> 4
      [] OTHER -> 5

get_level_value_offbyone(level) ==
    CASE level = "READ" -> 1
      [] level = "WRITE" -> 1
      [] level = "ADMIN" -> 3
      [] level = "SUPER_ADMIN" -> 4
      [] OTHER -> 0

get_level_value_swapped(level) ==
    CASE level = "READ" -> 1
      [] level = "WRITE" -> 3
      [] level = "ADMIN" -> 2
      [] level = "SUPER_ADMIN" -> 4
      [] OTHER -> 0

get_level_value(level) ==
    CASE level = "READ" -> 1
      [] level = "WRITE" -> 2
      [] level = "ADMIN" -> 3
      [] level = "SUPER_ADMIN" -> 4
      [] OTHER -> 0

\* The loops of User.has_permission return True at the first role that is the
\* super administrator or holds a permission passing the three checks, and
\* False when no role does: the result is the existence of such a role.
permission_passes_any_department(user, permission, module, level, target_department_id) ==
    /\ ~(permission.module # module /\ permission.module # "ALL")
    /\ ~(get_level_value(permission.level) < get_level_value(level))

permission_passes(user, permission, module, level, target_department_id) ==
    /\ ~(permission.module # module /\ permission.module # "ALL")
    /\ ~(get_level_value(permission.level) < get_level_value(level))
    /\ ~(/\ permission.department_id # None
         /\ target_department_id # None
         /\ permission.department_id # target_department_id
         /\ permission.department_id # user.department_id)

has_permission_no_superadmin(user, module, level, target_department_id) ==
    \E r \in user.roles :
        \E permission \in roles[r].permissions :
            permission_passes(user, permission, module, level, target_department_id)

has_permission(user, module, level, target_department_id) ==
    \E r \in user.roles :
        \/ roles[r].name = SUPER_ADMIN_ROLE
        \/ \E permission \in roles[r].permissions :
               permission_passes(user, permission, module, level, target_department_id)

-----------------------------------------------------------------------------
(* JSON values of the column routes.meta (models/route.py line 18) *)

Absent == [t |-> "absent"]
JNull == [t |-> "null"]
JBool(b) == [t |-> "bool", b |-> b]
JInt(n) == [t |-> "int", n |-> n]
JStr(parts) == [t |-> "str", parts |-> parts]
JList(items) == [t |-> "list", items |-> items]
JObj(module, level, departmentId, rolesField) ==
    [t |-> "obj", module |-> module, level |-> level,
     departmentId |-> departmentId, roles |-> rolesField]

\* meta is NULL, a dict, a str (whose text json.loads decodes or rejects) or
\* another JSON value.  Of a dict the keys the code reads or writes are kept,
\* and title, one of the display keys db/init_routes.py seeds.
MetaNone == [kind |-> "none"]
MetaOther == [kind |-> "other"]
MetaDict(title, permission, allowed_roles, public, isRoleBased) ==
    [kind |-> "dict", title |-> title, permission |-> permission,
     allowed_roles |-> allowed_roles, public |-> public, isRoleBased |-> isRoleBased]
MetaStr(json) == [kind |-> "str", json |-> json]
NotJson == [kind |-> "invalid"]
EmptyText == [kind |-> "empty"]
EmptyDict == MetaDict(Absent, Absent, Absent, Absent, Absent)

\* Python truth value of route.meta: None, {} and "" are false.
Truthy(meta) ==
    /\ meta.kind # "none"
    /\ meta # EmptyDict
    /\ ~(meta.kind = "str" /\ meta.json = EmptyText)

loads_or_closed(meta) ==
    IF meta.kind = "str"
    THEN IF meta.json.kind \in {"invalid", "empty"}
         THEN MetaDict(Absent, JNull, Absent, Absent, Absent)
         ELSE meta.json
    ELSE meta

\* meta = route.meta; if isinstance(meta, str): try json.loads except: {}
loads_or_empty(meta) ==
    IF meta.kind = "str"
    THEN IF meta.json.kind \in {"invalid", "empty"} THEN EmptyDict ELSE meta.json
    ELSE meta

\* str(n) and int(s) on the role ids of the model
DigitStr == <<"1", "2", "3", "4", "5", "6", "7", "8", "9">>
str(v) ==
    CASE v.t = "int" -> <<DigitStr[v.n]>>
      [] v.t = "str" -> v.parts
      [] OTHER -> <<"?">>
isdigit(parts) == \E n \in 1..Len(DigitStr) : parts = <<DigitStr[n]>>
int(parts) == CHOOSE n \in 1..Len(DigitStr) : parts = <<DigitStr[n]>>

-----------------------------------------------------------------------------
(* apis/routes.py: check_route_access *)

Access(has_access, reason) ==
    [status |-> "ok", has_access |-> has_access, reason |-> reason]
Raised(what) == [status |-> what, has_access |-> FALSE, reason |-> "raised"]

is_superadmin(user) == \E r \in user.roles : roles[r].name = SUPER_ADMIN_ROLE

granted_roles(user, route_id) ==
    {r \in user.roles : route_permissions[<<r, route_id>>] > 0}

\* lines 78-89: some entry of meta["allowed_roles"] is, as a string, the id of
\* a role of the user
allowed_roles_match(user, meta) ==
    /\ meta.allowed_roles.t = "list"
    /\ \E i \in 1..Len(meta.allowed_roles.items) :
           \E r \in user.roles : str(meta.allowed_roles.items[i]) = <<DigitStr[r]>>

\* lines 91-164: the permission field
permission_field_access(user, permission) ==
    CASE permission.t = "obj" ->
           IF has_permission(user, permission.module, permission.level, permission.departmentId)
           THEN Access(TRUE, "has_module_permission")
           ELSE Access(FALSE, "lacks_module_permission")
      [] permission.t = "str" /\ Len(permission.parts) > 1 ->
           IF Len(permission.parts) # 2
           THEN Raised("ValueError")
           ELSE IF has_permission(user, permission.parts[1], permission.parts[2], None)
                THEN Access(TRUE, "has_string_permission")
                ELSE Access(FALSE, "lacks_string_permission")
      [] permission.t = "str" /\ Len(permission.parts) <= 1 ->
           IF /\ user.department_id # None
              /\ <<DepartmentName[user.department_id]>> = permission.parts
           THEN Access(TRUE, "has_department_permission")
           ELSE Access(FALSE, "lacks_department_permission")
      [] OTHER -> Access(FALSE, "no_condition_met")

meta_access_no_wildcard(user, meta) ==
    IF \/ meta.kind # "dict"
       \/ meta.permission = Absent
    THEN Access(TRUE, "public_route")
    ELSE IF allowed_roles_match(user, meta)
         THEN Access(TRUE, "allowed_roles")
         ELSE permission_field_access(user, meta.permission)

meta_access(user, meta) ==
    IF \/ meta.kind # "dict"
       \/ meta.permission = Absent
       \/ meta.permission = JStr(<<"*">>)
    THEN Access(TRUE, "public_route")
    ELSE IF allowed_roles_match(user, meta)
         THEN Access(TRUE, "allowed_roles")
         ELSE permission_field_access(user, meta.permission)

check_route_access(current_user, route_id) ==
    IF route_id \notin DOMAIN routes THEN Raised("404")
    ELSE IF is_superadmin(current_user)
    THEN Access(TRUE, "superadmin")
    ELSE IF granted_roles(current_user, route_id) # {}
    THEN Access(TRUE, "route_permissions")
    ELSE IF ~Truthy(routes[route_id].meta)
    THEN Access(TRUE, "no_permission_requirement")
    ELSE meta_access(current_user, loads_or_empty(routes[route_id].meta))

-----------------------------------------------------------------------------
(* services/route_service.py: set_route_permissions *)

Count(seq, x) == Cardinality({i \in 1..Len(seq) : seq[i] = x})
Range(seq) == {seq[i] : i \in 1..Len(seq)}

\* lines 407-426: the descriptor the handler assigns to route.meta
rewritten_meta(meta, role_ids) ==
    LET decoded == loads_or_empty(meta)
        base == IF decoded.kind = "dict" THEN decoded ELSE EmptyDict
    IN  [base EXCEPT !.allowed_roles =
                         JList([i \in 1..Len(role_ids) |-> JStr(<<DigitStr[role_ids[i]]>>)]),
                     !.isRoleBased = JBool(TRUE),
                     !.permission = JNull,
                     !.public = JBool(FALSE)]

\* route.meta is a plain JSON column.  When it already holds a dict the handler
\* changes that dict in place and assigns the same object back, which the ORM
\* may or may not take for a change of the attribute: both outcomes are kept.
meta_write_outcomes(meta) == IF meta.kind = "dict" THEN BOOLEAN ELSE {TRUE}

rows_deleted_only(route_id, role_ids) ==
    [k \in DOMAIN route_permissions |->
        IF k[2] = route_id THEN 0 ELSE route_permissions[k]]

\* lines 398-404: delete the rows of the route, add one row per listed id
rows_replaced(route_id, role_ids) ==
    [k \in DOMAIN route_permissions |->
        IF k[2] = route_id THEN Count(role_ids, k[1]) ELSE route_permissions[k]]

rows_when_refused_valid_kept(route_id, role_ids) ==
    rows_replaced(route_id, SelectSeq(role_ids, LAMBDA r : r \in DOMAIN roles))

\* lines 391-396: return False ahead of the DELETE of line 399
rows_when_refused(route_id, role_ids) == route_permissions

set_route_permissions(route_id, role_ids) ==
    /\ UNCHANGED <<roles, users, uix_role_route, sessions, permissions>>
    /\ IF route_id \notin DOMAIN routes
       THEN /\ response' = [op |-> "set_route_permissions", status |-> "ok", result |-> FALSE]
            /\ UNCHANGED <<routes, route_permissions>>
       ELSE IF Range(role_ids) \ DOMAIN roles # {}
       THEN /\ response' = [op |-> "set_route_permissions", status |-> "ok", result |-> FALSE]
            /\ route_permissions' = rows_when_refused(route_id, role_ids)
            /\ UNCHANGED routes
       ELSE IF uix_role_route /\ \E r \in Range(role_ids) : Count(role_ids, r) > 1
       THEN \* IntegrityError at commit: rollback, raise
            /\ response' = [op |-> "set_route_permissions", status |-> "raise", result |-> FALSE]
            /\ UNCHANGED <<routes, route_permissions>>
       ELSE /\ route_permissions' = rows_replaced(route_id, role_ids)
            /\ \E written \in meta_write_outcomes(routes[route_id].meta) :
                   routes' = [routes EXCEPT ![route_id].meta =
                                 IF written THEN rewritten_meta(@, role_ids) ELSE @]
            /\ response' = [op |-> "set_route_permissions", status |-> "ok", result |-> TRUE,
                            route_id |-> route_id, role_ids |-> role_ids]

-----------------------------------------------------------------------------
(* services/permission_service.py: RoleService *)

delete_role_no_cascade(role_id) ==
    /\ UNCHANGED <<routes, uix_role_route, route_permissions, sessions, permissions>>
    /\ IF role_id \notin DOMAIN roles
       THEN /\ response' = [op |-> "delete_role", result |-> FALSE, role_id |-> role_id]
            /\ UNCHANGED <<roles, users>>
       ELSE /\ roles' = [r \in DOMAIN roles \ {role_id} |-> roles[r]]
            /\ users' = [u \in DOMAIN users |->
                            [users[u] EXCEPT !.roles = @ \ {role_id}]]
            /\ response' = [op |-> "delete_role", result |-> TRUE, role_id |-> role_id]

\* db.delete(role): the rows of user_role, role_permission and, by the cascade
\* of Role.route_permissions, of route_permissions that name the role go too
delete_role(role_id) ==
    /\ UNCHANGED <<routes, uix_role_route, sessions, permissions>>
    /\ IF role_id \notin DOMAIN roles
       THEN /\ response' = [op |-> "delete_role", result |-> FALSE, role_id |-> role_id]
            /\ UNCHANGED <<roles, users, route_permissions>>
       ELSE /\ roles' = [r \in DOMAIN roles \ {role_id} |-> roles[r]]
            /\ users' = [u \in DOMAIN users |->
                            [users[u] EXCEPT !.roles = @ \ {role_id}]]
            /\ route_permissions' = [k \in DOMAIN route_permissions |->
                                        IF k[1] = role_id THEN 0 ELSE route_permissions[k]]
            /\ response' = [op |-> "delete_role", result |-> TRUE, role_id |-> role_id]

assigned_roles_kept(user_id, role_ids) ==
    users[user_id].roles \cup (Range(role_ids) \cap DOMAIN roles)

\* lines 406-415: user.roles = [], then every role of role_ids that get_role
\* finds is appended; user_role has no unique key, a role named twice is
\* stored twice and the user holds it once
assigned_roles(user_id, role_ids) == Range(role_ids) \cap DOMAIN roles

assign_user_roles(user_id, role_ids) ==
    /\ UNCHANGED <<roles, routes, route_permissions, uix_role_route, sessions, permissions>>
    /\ IF user_id \notin DOMAIN users
       THEN /\ response' = [op |-> "assign_user_roles", result |-> FALSE]
            /\ UNCHANGED users
       ELSE /\ users' = [users EXCEPT ![user_id].roles = assigned_roles(user_id, role_ids)]
            /\ response' = [op |-> "assign_user_roles", result |-> TRUE]

-----------------------------------------------------------------------------
(* db/migrations/migrate_route_permissions_data.py: upgrade *)

\* Python truth value of a JSON value
JTruthy(v) ==
    CASE v.t = "absent" -> FALSE
      [] v.t = "null" -> FALSE
      [] v.t = "bool" -> v.b
      [] v.t = "list" -> Len(v.items) > 0
      [] v.t = "str" -> v.parts # <<"">>
      [] OTHER -> TRUE

super_admin_ids == {r \in DOMAIN roles : roles[r].name = SUPER_ADMIN_ROLE}

\* lines 68-78: allowed_roles, or the roles the permission field stands for
derived_allowed_roles(meta) ==
    LET allowed_roles == IF meta.allowed_roles = Absent THEN JList(<<>>)
                         ELSE meta.allowed_roles
        permission == meta.permission
    IN  IF ~JTruthy(allowed_roles) /\ JTruthy(permission)
        THEN IF permission.t = "obj" /\ JTruthy(permission.roles)
             THEN permission.roles
             ELSE IF permission = JStr(<<"*">>)
             THEN JList([i \in 1..Cardinality(DOMAIN roles) |->
                            JStr(<<DigitStr[CHOOSE r \in DOMAIN roles :
                                       Cardinality({q \in DOMAIN roles : q < r}) = i - 1]>>)])
             ELSE allowed_roles
        ELSE allowed_roles

\* lines 86-110: the role one entry of the list names, if any.  A number, or a
\* string of digits, names the role of that id; another string names the role
\* of that name.
entry_roles(entry) ==
    CASE entry.t = "int" -> {entry.n} \cap DOMAIN roles
      [] entry.t = "str" /\ isdigit(entry.parts) -> {int(entry.parts)} \cap DOMAIN roles
      [] entry.t = "str" /\ ~isdigit(entry.parts) ->
           {r \in DOMAIN roles : <<roles[r].name>> = entry.parts}
      [] OTHER -> {}

entry_raises(entry) == entry.t \notin {"int", "str"}

\* lines 54-110 for one route: skipped, failed, or the roles that get a row
\* unless they have one
route_migration(meta) ==
    IF ~Truthy(meta) THEN [status |-> "skip", targets |-> {}]
    ELSE IF meta.kind = "str" /\ meta.json.kind = "invalid"
    THEN [status |-> "skip", targets |-> {}]
    ELSE IF loads_or_empty(meta).kind # "dict"
    THEN [status |-> "skip", targets |-> {}]
    ELSE LET allowed_roles == derived_allowed_roles(loads_or_empty(meta))
         IN  IF allowed_roles.t # "list"
             THEN [status |-> "raise", targets |-> {}]
             ELSE IF \E i \in 1..Len(allowed_roles.items) : entry_raises(allowed_roles.items[i])
             THEN [status |-> "raise", targets |-> {}]
             ELSE [status |-> "ok",
                   targets |-> super_admin_ids \cup
                               UNION {entry_roles(allowed_roles.items[i]) :
                                         i \in 1..Len(allowed_roles.items)}]

\* lines 91-97: a row is added only if the query finds none (the session
\* flushes the rows added so far before each query)
missing_rows_unchecked(route_id, targets) == {<<r, route_id>> : r \in targets}

missing_rows(route_id, targets) ==
    {k \in {<<r, route_id>> : r \in targets} : route_permissions[k] = 0}

upgrade ==
    /\ UNCHANGED <<roles, users, routes, uix_role_route, sessions, permissions>>
    /\ LET migration == [route_id \in DOMAIN routes |-> route_migration(routes[route_id].meta)]
           added == UNION {missing_rows(route_id, migration[route_id].targets) :
                              route_id \in DOMAIN routes}
       IN  IF \E route_id \in DOMAIN routes : migration[route_id].status = "raise"
           THEN \* rollback, raise
                /\ response' = [op |-> "upgrade", status |-> "raise", created |-> 0,
                                again |-> response.op = "upgrade"]
                /\ UNCHANGED route_permissions
           ELSE IF uix_role_route /\ \E k \in added : route_permissions[k] > 0
           THEN \* IntegrityError on the unique index: rollback, raise
                /\ response' = [op |-> "upgrade", status |-> "IntegrityError", created |-> 0,
                                again |-> response.op = "upgrade"]
                /\ UNCHANGED route_permissions
           ELSE /\ route_permissions' = [k \in DOMAIN route_permissions |->
                                            IF k \in added THEN route_permissions[k] + 1
                                            ELSE route_permissions[k]]
                /\ response' = [op |-> "upgrade", status |-> "ok",
                                created |-> Cardinality(added),
                                again |-> response.op = "upgrade"]

-----------------------------------------------------------------------------
(* The administration of routes, roles and grants *)

Perm(module, level, department_id) ==
    [module |-> module, level |-> level, department_id |-> department_id]

\* services/init_service.py: the permissions the seeded roles start with
SeedPermissions(r) ==
    IF RoleNames[r] = SUPER_ADMIN_ROLE THEN {Perm("ALL", "SUPER_ADMIN", None)}
    ELSE IF r = 2 THEN {Perm("QA", "READ", None)}
    ELSE {}

SeedRoles == [r \in RoleIds |-> [name |-> RoleNames[r], permissions |-> SeedPermissions(r)]]

Title == JStr(<<"Quality">>)

\* Descriptors of the historical schema versions
LegacyMetas ==
    { MetaNone,
      MetaStr(NotJson),
      MetaDict(Title, JStr(<<"*">>), Absent, Absent, Absent),
      MetaDict(Title, JStr(<<"QA", "READ">>), Absent, Absent, Absent),
      MetaDict(Title, JObj("QA", "WRITE", None, Absent), Absent, Absent, Absent),
      MetaDict(Title, Absent, JList(<<JStr(<<"2">>)>>), Absent, Absent),
      MetaDict(Title, JNull, JList(<<JInt(2), JStr(<<RoleNames[2]>>)>>), Absent, Absent),
      MetaDict(Title, JNull, JList(<<JStr(<<"2">>), JStr(<<"2">>)>>), Absent, Absent),
      MetaStr(MetaDict(Title, JNull, JList(<<JStr(<<DigitStr[UnknownRoleId]>>)>>), Absent, Absent)) }

\* Lists of role ids a caller sends: none, one, or two ids (possibly the same
\* id twice, possibly the id of no role)
RoleIdLists ==
    {<<>>} \cup {<<a>> : a \in RoleIds \cup {UnknownRoleId}}
           \cup {p \in RoleIds \X (RoleIds \cup {UnknownRoleId}) : p[1] <= p[2]}

\* The users after role assignment: admin holds the super administrator
\* role, alice every other role
SeedUsers ==
    [u \in UserIds |->
        [is_active |-> TRUE, department_id |-> "D1",
         roles |-> IF u = "admin" THEN {r \in RoleIds : RoleNames[r] = SUPER_ADMIN_ROLE}
                   ELSE {r \in RoleIds : RoleNames[r] # SUPER_ADMIN_ROLE}]]

\* the table permissions (models/permission.py), in the order of the ids
NoPermissions == << >>

SessionIds == {"s1", "s2"}
Idle == [pc |-> "idle"]
NoSessions == [s \in SessionIds |-> Idle]

NoRows == [k \in RoleIds \X RouteIds |-> 0]

Init ==
    /\ roles = SeedRoles
    /\ users = SeedUsers
    /\ routes \in [{1} -> [meta : LegacyMetas]]
    /\ route_permissions = NoRows
    /\ uix_role_route \in BOOLEAN
    /\ response = [op |-> "init"]
    /\ sessions = NoSessions
    /\ permissions = NoPermissions

Next ==
    \/ \E route_id \in RouteIds, role_ids \in RoleIdLists :
           set_route_permissions(route_id, role_ids)
    \/ upgrade
    \/ \E role_id \in RoleIds : delete_role(role_id)

Spec == Init /\ [][Next]_vars

-----------------------------------------------------------------------------
(* Properties of the administration *)

\* The users a request can come from: any row of users, with any set of the
\* existing roles assigned to it
Principals ==
    [is_active : BOOLEAN, department_id : DeptIds \cup {None}, roles : SUBSET (DOMAIN roles)]

SetSucceeded ==
    /\ response.op = "set_route_permissions"
    /\ response.status = "ok"
    /\ response.result

\* C1: once set_route_permissions(route, role_ids) has succeeded,
\* check_route_access grants the route to every active user who holds one of
\* role_ids, whatever descriptor the route carries.
C1_ExplicitGrantTakesPrecedence ==
    SetSucceeded =>
        \A user \in Principals :
            (user.is_active /\ user.roles \cap Range(response.role_ids) # {}) =>
                /\ check_route_access(user, response.route_id).status = "ok"
                /\ check_route_access(user, response.route_id).has_access

\* The call succeeded and a user who is no super administrator is let in
\* through the table.
C1_Witness ==
    /\ SetSucceeded
    /\ \E user \in Principals :
           /\ user.is_active
           /\ ~is_superadmin(user)
           /\ user.roles \cap Range(response.role_ids) # {}
           /\ check_route_access(user, response.route_id).reason = "route_permissions"


\* C7: a run of the migration that directly follows another run creates no
\* row and leaves the table as the first run left it, and no run fails on a
\* duplicate row.
C7_MigrationIdempotent ==
    [][(response'.op = "upgrade") =>
           /\ response'.status # "IntegrityError"
           /\ (response.op = "upgrade" =>
                  /\ response'.created = 0
                  /\ route_permissions' = route_permissions)]_vars

\* The second of two runs in a row, on a route that lists the same role by id
\* and by name, after the first run gave that role its row.
C7_Witness ==
    /\ response.op = "upgrade"
    /\ response.again
    /\ response.status = "ok"
    /\ \E route_id \in DOMAIN routes :
           /\ routes[route_id].meta.kind = "dict"
           /\ routes[route_id].meta.allowed_roles = JList(<<JInt(2), JStr(<<RoleNames[2]>>)>>)
           /\ route_permissions[<<2, route_id>>] = 1

\* C8: a successful delete_role(r) leaves no row of route_permissions and no
\* user with role r, and changes no row and no membership of another role.
C8_DeleteRoleCascades ==
    [][(response'.op = "delete_role" /\ response'.result /\ response'.role_id \in DOMAIN roles) =>
           /\ \A k \in DOMAIN route_permissions :
                  route_permissions'[k] = IF k[1] = response'.role_id THEN 0
                                          ELSE route_permissions[k]
           /\ \A u \in DOMAIN users :
                  users'[u].roles = users[u].roles \ {response'.role_id}
           /\ response'.role_id \notin DOMAIN roles']_vars

\* A role that had a row and a member is gone, rows and members of other roles remain.
C8_Witness ==
    /\ response.op = "delete_role"
    /\ response.result
    /\ response.role_id \notin DOMAIN roles
    /\ \A k \in DOMAIN route_permissions : k[1] = response.role_id => route_permissions[k] = 0
    /\ \E k \in DOMAIN route_permissions : route_permissions[k] > 0
    /\ \E u \in DOMAIN users : users[u].roles # {}

\* A descriptor that restricts the route through a non-empty allowed_roles
\* list only: no permission, not public
OnlyAllowedRoles(meta) ==
    /\ meta.kind = "dict"
    /\ meta.allowed_roles.t = "list"
    /\ Len(meta.allowed_roles.items) > 0
    /\ meta.permission \in {Absent, JNull}
    /\ meta.public \in {Absent, JBool(FALSE)}

NoRowsOf(route_id) == \A r \in RoleIds : route_permissions[<<r, route_id>>] = 0

\* C10: a route restricted by a non-empty allowed_roles list only, with no row
\* in route_permissions, is denied (no condition met) to every active user who
\* is no super administrator and holds none of the listed roles; after
\* set_route_permissions(route, <<r>>) a user holding r is granted through the
\* table.
C10_AllowedRolesDenyThenGrant ==
    /\ \A route_id \in DOMAIN routes : \A user \in Principals :
           (/\ user.is_active
            /\ ~is_superadmin(user)
            /\ NoRowsOf(route_id)
            /\ OnlyAllowedRoles(loads_or_empty(routes[route_id].meta))
            /\ ~allowed_roles_match(user, loads_or_empty(routes[route_id].meta)))
           => check_route_access(user, route_id) = Access(FALSE, "no_condition_met")
    /\ SetSucceeded =>
           \A user \in Principals :
               (/\ user.is_active
                /\ ~is_superadmin(user)
                /\ Len(response.role_ids) = 1
                /\ response.role_ids[1] \in user.roles)
               => check_route_access(user, response.route_id) = Access(TRUE, "route_permissions")

-----------------------------------------------------------------------------
(* The resolver on the descriptors of every shape *)

\* apis/routes.py: GET /routes/check-access/{route_id} for the logged in user
get_check_route_access(user_id, route_id) ==
    /\ user_id \in DOMAIN users
    /\ response' = [op |-> "check_route_access", user_id |-> user_id, route_id |-> route_id,
                    access |-> check_route_access(users[user_id], route_id)]
    /\ UNCHANGED <<roles, users, routes, route_permissions, uix_role_route, sessions, permissions>>

\* services/permission_service.py: RoleService.check_permission
check_permission(user_id, module, level, target_department_id) ==
    /\ response' = [op |-> "check_permission", user_id |-> user_id, module |-> module,
                    level |-> level, target_department_id |-> target_department_id,
                    result |-> IF user_id \notin DOMAIN users THEN FALSE
                               ELSE has_permission(users[user_id], module, level,
                                                   target_department_id)]
    /\ UNCHANGED <<roles, users, routes, route_permissions, uix_role_route, sessions, permissions>>

QueryModules == {"QA"}
QueryLevels == {"READ", "SUPER_ADMIN"}
QueryDepartments == {None, "D2"}

PermissionFields ==
    { Absent, JNull, JStr(<<"*">>),
      JStr(<<"QA", "READ">>), JStr(<<"QA", "WRITE">>), JStr(<<"QA">>), JStr(<<"EHS">>),
      JObj("QA", "READ", None, Absent), JObj("QA", "ADMIN", "D2", Absent) }

AllowedRolesFields ==
    { Absent, JList(<<>>), JStr(<<"2">>) }
    \cup {JList(<<JStr(<<DigitStr[r]>>)>>) : r \in {2, MaxRole}}
    \cup {JList(<<JInt(r), JStr(<<RoleNames[r]>>)>>) : r \in {MaxRole}}

ResolveDicts ==
    {MetaDict(Title, permission, allowed_roles, Absent, Absent) :
        permission \in PermissionFields, allowed_roles \in AllowedRolesFields}
    \cup {MetaDict(Title, permission, Absent, JBool(TRUE), Absent) :
             permission \in {Absent, JStr(<<"QA", "WRITE">>)}}
    \cup {rewritten_meta(MetaNone, role_ids) : role_ids \in {<<>>, <<2>>}}

ResolveMetas ==
    {MetaNone, MetaOther, EmptyDict, MetaStr(NotJson), MetaStr(EmptyText), MetaStr(MetaOther)}
    \cup ResolveDicts
    \cup {MetaStr(m) : m \in {MetaDict(Title, JStr(<<"QA", "WRITE">>), Absent, Absent, Absent)}}

ResolveRoles ==
    {[r \in RoleIds |->
        [name |-> RoleNames[r],
         permissions |-> IF RoleNames[r] = SUPER_ADMIN_ROLE THEN p1
                         ELSE IF r = 2 THEN p2 ELSE {}]] :
        p1 \in {{}, {Perm("ALL", "SUPER_ADMIN", None)}},
        p2 \in {{}, {Perm("QA", "READ", None)}, {Perm("QA", "ADMIN", "D2")}}}

InitResolve ==
    /\ roles \in ResolveRoles
    /\ users \in [{"alice"} -> [is_active : BOOLEAN, department_id : {"D1"}, roles : {{}}]]
    /\ routes \in [{1} -> [meta : ResolveMetas]]
    /\ route_permissions \in
           {[k \in RoleIds \X RouteIds |-> IF k[2] = 1 /\ k[1] \in granted THEN 1 ELSE 0] :
               granted \in {{}, {2}, {MaxRole}}}
    /\ uix_role_route = TRUE
    /\ response = [op |-> "init"]
    /\ sessions = NoSessions
    /\ permissions = NoPermissions

NextResolve ==
    \/ \E user_id \in UserIds, role_ids \in RoleIdLists : assign_user_roles(user_id, role_ids)
    \/ \E user_id \in UserIds, route_id \in RouteIds : get_check_route_access(user_id, route_id)
    \/ \E user_id \in UserIds, module \in QueryModules, level \in QueryLevels,
          target_department_id \in QueryDepartments :
           check_permission(user_id, module, level, target_department_id)

SpecResolve == InitResolve /\ [][NextResolve]_vars

-----------------------------------------------------------------------------
(* Properties of the resolver *)

held_permissions(user) == UNION {roles[r].permissions : r \in user.roles}

\* C2: a user holding a role named as the super administrator is granted by
\* has_permission for every module, level and target department, and by
\* check_route_access for every existing route, whatever the permissions of
\* the roles, the rows of route_permissions and the meta of the route.
C2_SuperAdminGrantsEverything ==
    \A u \in DOMAIN users :
        is_superadmin(users[u]) =>
            /\ \A module \in Module, level \in PermissionLevel,
                  target_department_id \in DeptIds \cup {None} :
                   has_permission(users[u], module, level, target_department_id)
            /\ \A route_id \in DOMAIN routes :
                   /\ check_route_access(users[u], route_id).status = "ok"
                   /\ check_route_access(users[u], route_id).has_access

\* a super administrator whose roles carry no permission at all, on a route
\* whose meta alone would refuse them, has been answered
C2_Witness ==
    /\ response.op = "check_route_access"
    /\ response.route_id \in DOMAIN routes
    /\ response.access = Access(TRUE, "superadmin")
    /\ is_superadmin(users[response.user_id])
    /\ held_permissions(users[response.user_id]) = {}
    /\ granted_roles(users[response.user_id], response.route_id) = {}
    /\ ~meta_access(users[response.user_id], routes[response.route_id].meta).has_access

\* C3: a user with is_active false is denied by has_permission and by
\* check_route_access, whatever roles, permissions, rows and meta exist.
C3_InactiveUsersDenied ==
    \A u \in DOMAIN users :
        ~users[u].is_active =>
            /\ \A module \in Module, level \in PermissionLevel,
                  target_department_id \in DeptIds \cup {None} :
                   ~has_permission(users[u], module, level, target_department_id)
            /\ \A route_id \in DOMAIN routes :
                   ~check_route_access(users[u], route_id).has_access

\* meta that is not a dict and does not decode to one
Malformed(meta) ==
    \/ meta.kind = "other"
    \/ meta.kind = "str" /\ meta.json.kind # "dict"

\* the answers of check_route_access for a route without permission requirement
\* (routes.py line 58) and for a route open to everyone (line 75)
UnrestrictedReasons == {"no_permission_requirement", "public_route"}

ActiveWithoutGrant(u, route_id) ==
    /\ users[u].is_active
    /\ Malformed(routes[route_id].meta)
    /\ granted_roles(users[u], route_id) = {}

\* C9 as stated: on a route whose meta does not decode to a dict and without a
\* row for a role of the user, check_route_access does not raise and grants
\* every active user for the reason of an unrestricted route.
C9_MalformedGrantsUnrestricted ==
    \A u \in DOMAIN users, route_id \in DOMAIN routes :
        ActiveWithoutGrant(u, route_id) =>
            /\ check_route_access(users[u], route_id).status = "ok"
            /\ check_route_access(users[u], route_id).has_access
            /\ check_route_access(users[u], route_id).reason \in UnrestrictedReasons

\* C9 amended: the same, where the reason is the one of an unrestricted route
\* for the users that are not super administrator and the one of the super
\* administrator for those that are.
C9_MalformedGrants ==
    \A u \in DOMAIN users, route_id \in DOMAIN routes :
        ActiveWithoutGrant(u, route_id) =>
            /\ check_route_access(users[u], route_id).status = "ok"
            /\ check_route_access(users[u], route_id).has_access
            /\ check_route_access(users[u], route_id).reason \in
                   IF is_superadmin(users[u]) THEN {"superadmin"} ELSE UnrestrictedReasons

C9_Witness ==
    /\ response.op = "check_route_access"
    /\ response.route_id \in DOMAIN routes
    /\ ActiveWithoutGrant(response.user_id, response.route_id)
    /\ routes[response.route_id].meta = MetaStr(NotJson)
    /\ users[response.user_id].roles # {}
    /\ response.access = Access(TRUE, "public_route")

-----------------------------------------------------------------------------
(* has_permission on the permissions of every module, level and department *)

PermModules == {"QA", "USER", "ALL"}

ScopedPermissions ==
    {Perm(module, level, department_id) :
        module \in PermModules, level \in PermissionLevel,
        department_id \in DeptIds \cup {None}}

PermRoles ==
    {[r \in RoleIds |->
        [name |-> RoleNames[r],
         permissions |-> IF RoleNames[r] = SUPER_ADMIN_ROLE
                         THEN {Perm("ALL", "SUPER_ADMIN", None)}
                         ELSE IF r = 2 THEN p2
                         ELSE IF r = MaxRole THEN p3 ELSE {}]] :
        p2 \in {{}} \cup {{permission} : permission \in ScopedPermissions},
        p3 \in {{}, {Perm("QA", "WRITE", "D1")}}}

InitPerm ==
    /\ roles \in PermRoles
    /\ users \in [{"alice"} -> [is_active : {TRUE}, department_id : {"D1", None},
                                roles : {{}}]]
    /\ routes = [route_id \in {1} |-> [meta |-> MetaNone]]
    /\ route_permissions = NoRows
    /\ uix_role_route = TRUE
    /\ response = [op |-> "init"]
    /\ sessions = NoSessions
    /\ permissions = NoPermissions

NextPerm ==
    \/ \E user_id \in UserIds, role_ids \in RoleIdLists : assign_user_roles(user_id, role_ids)
    \/ \E user_id \in UserIds, module \in {"QA", "USER"}, level \in PermissionLevel,
          target_department_id \in DeptIds \cup {None} :
           check_permission(user_id, module, level, target_department_id)

SpecPerm == InitPerm /\ [][NextPerm]_vars

\* the ordinal scale of the levels
rank == [level \in PermissionLevel |->
            CASE level = "READ" -> 1
              [] level = "WRITE" -> 2
              [] level = "ADMIN" -> 3
              [] level = "SUPER_ADMIN" -> 4]

OnModule(permission, module) == permission.module \in {module, "ALL"}

ScopePermits(user, permission, target_department_id) ==
    \/ permission.department_id = None
    \/ permission.department_id = target_department_id
    \/ permission.department_id = user.department_id

\* C4: a user holding through one of their roles a permission on module M at
\* level L, whose department scope permits, is granted M at every level R
\* with rank(R) <= rank(L).
C4_LevelMonotone ==
    \A u \in DOMAIN users, module \in Module \ {"ALL"}, level \in PermissionLevel,
       target_department_id \in DeptIds \cup {None} :
        (\E permission \in held_permissions(users[u]) :
            /\ OnModule(permission, module)
            /\ ScopePermits(users[u], permission, target_department_id)
            /\ rank[level] <= rank[permission.level])
        => has_permission(users[u], module, level, target_department_id)

C4_Witness ==
    /\ response.op = "check_permission"
    /\ response.user_id \in DOMAIN users
    /\ ~is_superadmin(users[response.user_id])
    /\ response.level = "WRITE"
    /\ \A permission \in held_permissions(users[response.user_id]) :
           OnModule(permission, response.module) => permission.level = "ADMIN"
    /\ response.result

\* C5: a user without the super administrator role whose permissions on module
\* M and on ALL are all of a level below R is denied M at level R; a user
\* holding only QA READ is granted QA READ and denied QA WRITE.
C5_InsufficientLevelDenied ==
    \A u \in DOMAIN users :
        /\ \A module \in Module \ {"ALL"}, level \in PermissionLevel,
              target_department_id \in DeptIds \cup {None} :
               (/\ ~is_superadmin(users[u])
                /\ \A permission \in held_permissions(users[u]) :
                       OnModule(permission, module) => rank[permission.level] < rank[level])
               => ~has_permission(users[u], module, level, target_department_id)
        /\ held_permissions(users[u]) = {Perm("QA", "READ", None)} /\ ~is_superadmin(users[u])
           => /\ has_permission(users[u], "QA", "READ", None)
              /\ ~has_permission(users[u], "QA", "WRITE", None)

C5_Witness ==
    /\ response.op = "check_permission"
    /\ response.user_id \in DOMAIN users
    /\ ~is_superadmin(users[response.user_id])
    /\ held_permissions(users[response.user_id]) = {Perm("QA", "READ", None)}
    /\ response.module = "QA"
    /\ response.level = "WRITE"
    /\ ~response.result

\* C6 as stated: has_permission grants a user that is not super administrator
\* only by a permission matching on module and level whose department scope
\* is unset, equals the target department or equals the department of the
\* user, in every call, those without target department included.
C6_DepartmentScopeAlways ==
    \A u \in DOMAIN users, module \in Module \ {"ALL"}, level \in PermissionLevel,
       target_department_id \in DeptIds \cup {None} :
        (~is_superadmin(users[u])
         /\ has_permission(users[u], module, level, target_department_id))
        => \E permission \in held_permissions(users[u]) :
               /\ OnModule(permission, module)
               /\ rank[level] <= rank[permission.level]
               /\ ScopePermits(users[u], permission, target_department_id)

\* C6 amended: in a call that passes a target department, has_permission grants
\* a user that is not super administrator exactly by a permission matching on
\* module and level whose department scope is unset, equals the target or
\* equals the department of the user; in a call that passes none, exactly by
\* a permission matching on module and level, whatever its scope.
C6_DepartmentScopeWithTarget ==
    \A u \in DOMAIN users, module \in Module \ {"ALL"}, level \in PermissionLevel,
       target_department_id \in DeptIds \cup {None} :
        ~is_superadmin(users[u]) =>
            (has_permission(users[u], module, level, target_department_id)
             <=> \E permission \in held_permissions(users[u]) :
                     /\ OnModule(permission, module)
                     /\ rank[level] <= rank[permission.level]
                     /\ \/ target_department_id = None
                        \/ ScopePermits(users[u], permission, target_department_id))

\* a permission scoped to another department than the target and the user's
\* has refused, and the same permission has granted a call without target
C6_Witness ==
    /\ response.op = "check_permission"
    /\ response.user_id \in DOMAIN users
    /\ ~is_superadmin(users[response.user_id])
    /\ held_permissions(users[response.user_id]) = {Perm("QA", "ADMIN", "D2")}
    /\ users[response.user_id].department_id = "D1"
    /\ response.module = "QA"
    /\ response.level = "READ"
    /\ response.target_department_id = "D1"
    /\ ~response.result
    /\ has_permission(users[response.user_id], "QA", "READ", None)

-----------------------------------------------------------------------------
(* services/permission_service.py: the filter of PermissionService.get_user_routes *)

\* lines 204-214: meta decoded, and {} in the place of what is not a dict
dict_or_empty(meta) ==
    LET decoded == loads_or_empty(meta)
    IN  IF decoded.kind = "dict" THEN decoded ELSE EmptyDict

\* lines 216-231: public, then permission "*", then allowed_roles
meta_keeps(user, meta) ==
    \/ meta.public = JBool(TRUE)
    \/ meta.public # JBool(TRUE) /\ meta.permission = JStr(<<"*">>)
    \/ /\ meta.public # JBool(TRUE)
       /\ meta.permission # JStr(<<"*">>)
       /\ allowed_roles_match(user, meta)

\* lines 159-234: whether the route is among accessible_routes
route_kept(user, route_id) ==
    \/ is_superadmin(user)
    \/ granted_roles(user, route_id) # {}
    \/ meta_keeps(user, dict_or_empty(routes[route_id].meta))

-----------------------------------------------------------------------------
(* Properties of the fallback on route.meta *)

Decoded(route_id) == loads_or_empty(routes[route_id].meta)

Wildcard(route_id) ==
    /\ Decoded(route_id).kind = "dict"
    /\ Decoded(route_id).permission = JStr(<<"*">>)
    /\ NoRowsOf(route_id)

\* C11 as stated: a route whose meta has permission "*" and that has no row in
\* route_permissions is granted to every active user, whatever roles they
\* hold, for the reason of a route open to everyone.
C11_WildcardOpenToAuthenticated ==
    \A u \in DOMAIN users, route_id \in DOMAIN routes :
        users[u].is_active /\ Wildcard(route_id) =>
            check_route_access(users[u], route_id) = Access(TRUE, "public_route")

\* C11 amended: the same, where the reason is the one of an open route for the
\* users that are not super administrator and the one of the super
\* administrator for those that are.
C11_WildcardGrants ==
    \A u \in DOMAIN users, route_id \in DOMAIN routes :
        users[u].is_active /\ Wildcard(route_id) =>
            check_route_access(users[u], route_id) =
                Access(TRUE, IF is_superadmin(users[u]) THEN "superadmin" ELSE "public_route")

\* a user without role has been granted a route with permission "*" and an
\* allowed_roles list
C11_Witness ==
    /\ response.op = "check_route_access"
    /\ response.route_id \in DOMAIN routes
    /\ users[response.user_id].is_active
    /\ users[response.user_id].roles = {}
    /\ Wildcard(response.route_id)
    /\ routes[response.route_id].meta.allowed_roles # Absent
    /\ response.access = Access(TRUE, "public_route")

\* C12: for an active user that is not super administrator and has no row in
\* route_permissions, a route whose meta has public true is granted for the
\* reason of a public route, whatever permission and allowed_roles hold.
C12_PublicShortCircuits ==
    \A u \in DOMAIN users, route_id \in DOMAIN routes :
        (/\ users[u].is_active
         /\ ~is_superadmin(users[u])
         /\ granted_roles(users[u], route_id) = {}
         /\ Decoded(route_id).kind = "dict"
         /\ Decoded(route_id).public = JBool(TRUE))
        => check_route_access(users[u], route_id) = Access(TRUE, "public_route")

\* C13: get_user_routes keeps a route exactly when check_route_access grants
\* it, for every user and every meta.
C13_TreeFilterAgreesWithResolver ==
    \A u \in DOMAIN users, route_id \in DOMAIN routes :
        route_kept(users[u], route_id) <=> check_route_access(users[u], route_id).has_access

-----------------------------------------------------------------------------
(* services/permission_service.py: get_user_routes and _build_route_tree *)

\* routes.parent_id is NULL (a parent_id that is false in Python)
NoParent == 0

\* RouteService.get_all_routes: ORDER BY sort_order (rows of equal sort_order
\* in the order of their id)
get_all_routes ==
    CHOOSE s \in [1..Cardinality(DOMAIN routes) -> DOMAIN routes] :
        \A i, j \in DOMAIN s :
            i < j => \/ routes[s[i]].sort_order < routes[s[j]].sort_order
                     \/ /\ routes[s[i]].sort_order = routes[s[j]].sort_order
                        /\ s[i] < s[j]

SortOrders == {0, 1}

RECURSIVE sorted_from(_, _)
sorted_from(list, key) ==
    IF key \notin SortOrders THEN <<>>
    ELSE SelectSeq(list, LAMBDA id : routes[id].sort_order = key) \o sorted_from(list, key + 1)

\* lines 290-302: list.sort(key=sort_order), which keeps the order of equal keys
sort_routes(list) == sorted_from(list, 0)

\* lines 257-305: the roots are the routes without parent_id; a route is put
\* among the children of its parent when the parent is in the list
_build_route_tree(list) ==
    [roots |-> sort_routes(SelectSeq(list, LAMBDA id : routes[id].parent_id = NoParent)),
     children |-> [p \in Range(list) |->
                      sort_routes(SelectSeq(list, LAMBDA id : routes[id].parent_id = p))]]

\* lines 139-245
get_user_routes(user_id) ==
    /\ user_id \in DOMAIN users
    /\ response' = [op |-> "get_user_routes", user_id |-> user_id,
                    tree |-> _build_route_tree(
                                 SelectSeq(get_all_routes,
                                           LAMBDA id : route_kept(users[user_id], id)))]
    /\ UNCHANGED <<roles, users, routes, route_permissions, uix_role_route, sessions, permissions>>

TreeRouteIds == {1, 2, 3}

TreeMetas ==
    {MetaNone,
     MetaDict(Title, Absent, Absent, JBool(TRUE), Absent),
     MetaDict(Title, JNull, JList(<<JStr(<<"2">>)>>), JBool(FALSE), JBool(TRUE))}

InitTree ==
    /\ roles = SeedRoles
    /\ users = [u \in {"alice"} |-> [is_active |-> TRUE, department_id |-> "D1", roles |-> {}]]
    /\ routes \in {r \in [TreeRouteIds -> [meta : TreeMetas,
                                           parent_id : TreeRouteIds \cup {NoParent},
                                           sort_order : SortOrders]] :
                      \A id \in TreeRouteIds :
                          r[id].parent_id # NoParent => r[id].parent_id < id}
    /\ route_permissions \in
           {[k \in RoleIds \X TreeRouteIds |-> IF k \in granted THEN 1 ELSE 0] :
               granted \in {{}, {<<MaxRole, 1>>}}}
    /\ uix_role_route = TRUE
    /\ response = [op |-> "init"]
    /\ sessions = NoSessions
    /\ permissions = NoPermissions

NextTree ==
    \/ \E user_id \in UserIds, role_ids \in RoleIdLists : assign_user_roles(user_id, role_ids)
    \/ \E user_id \in UserIds : get_user_routes(user_id)

SpecTree == InitTree /\ [][NextTree]_vars

RECURSIVE descendants(_, _, _)
descendants(tree, nodes, depth) ==
    IF depth = 0 THEN nodes
    ELSE descendants(tree,
                     nodes \cup UNION {Range(tree.children[p]) : p \in nodes \cap DOMAIN tree.children},
                     depth - 1)

ForestNodes(tree) == descendants(tree, Range(tree.roots), Cardinality(DOMAIN routes))

\* C14: in the forest get_user_routes returns, every route the filter keeps
\* is present, and a kept route whose parent is not kept is a root.
C14_OrphanBecomesRoot ==
    response.op = "get_user_routes" =>
        \A id \in DOMAIN routes :
            route_kept(users[response.user_id], id) =>
                /\ id \in ForestNodes(response.tree)
                /\ (/\ routes[id].parent_id # NoParent
                    /\ ~route_kept(users[response.user_id], routes[id].parent_id))
                   => id \in Range(response.tree.roots)

-----------------------------------------------------------------------------
(* Properties of set_route_permissions *)

GrantedTo(route_id) == {r \in RoleIds : route_permissions[<<r, route_id>>] > 0}

AllowedRoleIds(meta) ==
    {int(str(meta.allowed_roles.items[i])) : i \in DOMAIN meta.allowed_roles.items}

\* C15: right after set_route_permissions(route, role_ids) has succeeded the
\* rows of the route name exactly the roles of role_ids, allowed_roles of the
\* stored meta names the same roles and the permission field of the meta is
\* cleared.
C15_RowsAndDescriptorAgree ==
    SetSucceeded =>
        /\ GrantedTo(response.route_id) = Range(response.role_ids)
        /\ routes[response.route_id].meta.kind = "dict"
        /\ routes[response.route_id].meta.allowed_roles.t = "list"
        /\ AllowedRoleIds(routes[response.route_id].meta) = Range(response.role_ids)
        /\ routes[response.route_id].meta.permission = JNull

-----------------------------------------------------------------------------
(* apis/role.py and apis/permission.py: the roles *)

Apis == {"role", "permission"}

\* apis/role.py line 280
RESERVED_ROLES == {SUPER_ADMIN_ROLE, "dept_manager", "team_leader", "normal_user"}

NewRoleNames == {"Auditor", "dept_manager"}

\* the answer of a handler that changes nothing
Refuse(op, status) ==
    /\ response' = [op |-> op, status |-> status, result |-> FALSE]
    /\ UNCHANGED <<roles, users, routes, route_permissions, uix_role_route, sessions, permissions>>

may_administer(user_id) ==
    /\ user_id \in DOMAIN users
    /\ has_permission(users[user_id], "USER", "ADMIN", None)

get_role_by_name(name) == {r \in DOMAIN roles : roles[r].name = name}

\* DELETE /roles/{role_id} of apis/role.py.  What the handler answers after
\* RoleService.delete_role has returned True (lines 301-322) is left out.
role_api_delete_role(user_id, role_id) ==
    IF ~may_administer(user_id) THEN Refuse("delete_role", "403")
    ELSE IF role_id \notin DOMAIN roles THEN Refuse("delete_role", "404")
    ELSE IF roles[role_id].name \in RESERVED_ROLES THEN Refuse("delete_role", "400")
    ELSE delete_role(role_id)

\* DELETE /roles/{role_id} of apis/permission.py
permission_api_delete_role(user_id, role_id) ==
    IF ~may_administer(user_id) THEN Refuse("delete_role", "403")
    ELSE IF role_id \notin DOMAIN roles THEN Refuse("delete_role", "404")
    ELSE delete_role(role_id)

\* POST /roles up to the call of RoleService.create_role: the permission of
\* the caller and the look-up of the name (both files alike)
create_role_check(s, api, user_id, name) ==
    /\ sessions[s] = Idle
    /\ IF ~may_administer(user_id) THEN Refuse("create_role", "403")
       ELSE IF get_role_by_name(name) # {} THEN Refuse("create_role", "400")
       ELSE /\ sessions' = [sessions EXCEPT ![s] = [pc |-> "create_role", api |-> api,
                                                     name |-> name]]
            /\ UNCHANGED <<roles, users, routes, route_permissions, uix_role_route, response, permissions>>

NextRoleId == IF DOMAIN roles = {} THEN 1
              ELSE 1 + CHOOSE m \in DOMAIN roles : \A r \in DOMAIN roles : r <= m

role_inserted_unchecked(name) == TRUE

\* the unique index of roles.name (models/permission.py line 65) lets the
\* INSERT or UPDATE of the commit through
name_is_free(name, but) == \A r \in DOMAIN roles \ but : roles[r].name # name

role_inserted(name) == name_is_free(name, {})

\* RoleService.create_role: db.add(db_role), db.commit()
create_role_commit(s) ==
    /\ sessions[s].pc = "create_role"
    /\ sessions' = [sessions EXCEPT ![s] = Idle]
    /\ UNCHANGED <<users, routes, route_permissions, uix_role_route, permissions>>
    /\ IF role_inserted(sessions[s].name)
       THEN /\ NextRoleId <= MaxRole
            /\ roles' = [r \in DOMAIN roles \cup {NextRoleId} |->
                            IF r = NextRoleId
                            THEN [name |-> sessions[s].name, permissions |-> {}]
                            ELSE roles[r]]
            /\ response' = [op |-> "create_role", status |-> "200", result |-> TRUE,
                            role_id |-> NextRoleId]
       ELSE \* IntegrityError
            /\ response' = [op |-> "create_role", status |-> "500", result |-> FALSE]
            /\ UNCHANGED roles

\* PUT /roles/{role_id} up to the call of RoleService.update_role
update_role_check(s, api, user_id, role_id, name) ==
    /\ sessions[s] = Idle
    /\ IF ~may_administer(user_id) THEN Refuse("update_role", "403")
       ELSE IF api = "role" /\ role_id \notin DOMAIN roles THEN Refuse("update_role", "404")
       ELSE IF /\ api = "role"
               /\ name # roles[role_id].name
               /\ get_role_by_name(name) # {}
       THEN Refuse("update_role", "400")
       ELSE IF api = "permission" /\ get_role_by_name(name) \ {role_id} # {}
       THEN Refuse("update_role", "400")
       ELSE /\ sessions' = [sessions EXCEPT ![s] = [pc |-> "update_role", api |-> api,
                                                     role_id |-> role_id, name |-> name]]
            /\ UNCHANGED <<roles, users, routes, route_permissions, uix_role_route, response, permissions>>

\* RoleService.update_role: setattr(db_role, "name", value), db.commit()
update_role_commit(s) ==
    /\ sessions[s].pc = "update_role"
    /\ sessions' = [sessions EXCEPT ![s] = Idle]
    /\ UNCHANGED <<users, routes, route_permissions, uix_role_route, permissions>>
    /\ IF sessions[s].role_id \notin DOMAIN roles
       THEN /\ response' = [op |-> "update_role", result |-> FALSE,
                            status |-> IF sessions[s].api = "role" THEN "500" ELSE "404"]
            /\ UNCHANGED roles
       ELSE IF name_is_free(sessions[s].name, {sessions[s].role_id})
       THEN /\ roles' = [roles EXCEPT ![sessions[s].role_id].name = sessions[s].name]
            /\ response' = [op |-> "update_role", status |-> "200", result |-> TRUE,
                            role_id |-> sessions[s].role_id]
       ELSE \* IntegrityError
            /\ response' = [op |-> "update_role", status |-> "500", result |-> FALSE]
            /\ UNCHANGED roles

InitRoles ==
    /\ roles = [r \in {1} |-> SeedRoles[r]]
    /\ users = [u \in UserIds |->
                   [is_active |-> TRUE, department_id |-> "D1",
                    roles |-> IF u = "admin" THEN {1} ELSE {}]]
    /\ routes = [route_id \in {1} |-> [meta |-> MetaNone]]
    /\ route_permissions \in {NoRows, [NoRows EXCEPT ![<<1, 1>>] = 1]}
    /\ uix_role_route = TRUE
    /\ response = [op |-> "init"]
    /\ sessions = NoSessions
    /\ permissions = NoPermissions

NextRoles ==
    \/ \E user_id \in UserIds, role_id \in RoleIds : role_api_delete_role(user_id, role_id)
    \/ \E user_id \in UserIds, role_id \in RoleIds : permission_api_delete_role(user_id, role_id)
    \/ \E s \in SessionIds, api \in Apis, user_id \in UserIds, name \in NewRoleNames :
           create_role_check(s, api, user_id, name)
    \/ \E s \in SessionIds : create_role_commit(s)
    \/ \E s \in SessionIds, api \in Apis, user_id \in UserIds, role_id \in RoleIds,
          name \in NewRoleNames : update_role_check(s, api, user_id, role_id, name)
    \/ \E s \in SessionIds : update_role_commit(s)

SpecRoles == InitRoles /\ [][NextRoles]_vars


\* C19: a delete_role call never removes a role whose name is reserved,
\* through either handler: the role, the users holding it and its rows of
\* route_permissions stay as they were.
C19_ReservedRolesNotDeleted ==
    [][response'.op = "delete_role" =>
          \A r \in DOMAIN roles :
              roles[r].name \in RESERVED_ROLES =>
                  /\ r \in DOMAIN roles'
                  /\ roles'[r] = roles[r]
                  /\ \A u \in DOMAIN users : (r \in users'[u].roles) = (r \in users[u].roles)
                  /\ \A route_id \in RouteIds :
                         route_permissions'[<<r, route_id>>] = route_permissions[<<r, route_id>>]]_vars

NamesDistinct ==
    \A r1, r2 \in DOMAIN roles : r1 # r2 => roles[r1].name # roles[r2].name

-----------------------------------------------------------------------------
(* The transactions of set_route_permissions, assign_user_roles and upgrade *)

\* Each request runs in a session of its own (db/session.py get_db) whose
\* changes other sessions see at its commit.  The DELETE of line 399 runs when
\* the handler reaches it and locks the rows it deletes; the rows added at
\* lines 402-404 and the UPDATE of routes.meta are sent at db.commit().  The
\* handler takes no lock on the route itself.
rows_locked_by_others(s, route_id) ==
    \E t \in SessionIds \ {s} :
        /\ sessions[t].pc = "set_route_permissions"
        /\ sessions[t].route_id = route_id
        /\ \E r \in RoleIds : sessions[t].deleted[r] > 0

\* lines 384-399: the route, the roles, the DELETE
set_route_permissions_begin(s, route_id, role_ids) ==
    /\ sessions[s] = Idle
    /\ IF route_id \notin DOMAIN routes \/ Range(role_ids) \ DOMAIN roles # {}
       THEN /\ response' = [op |-> "set_route_permissions", status |-> "ok", result |-> FALSE]
            /\ UNCHANGED <<roles, users, routes, route_permissions, uix_role_route, sessions, permissions>>
       ELSE /\ ~rows_locked_by_others(s, route_id)
            /\ sessions' = [sessions EXCEPT ![s] =
                               [pc |-> "set_route_permissions", route_id |-> route_id,
                                role_ids |-> role_ids, meta |-> routes[route_id].meta,
                                deleted |-> [r \in RoleIds |-> route_permissions[<<r, route_id>>]]]]
            /\ UNCHANGED <<roles, users, routes, route_permissions, uix_role_route, response, permissions>>

\* the rows of the table once the session has committed
rows_committed(s) ==
    [k \in DOMAIN route_permissions |->
        IF k[2] = sessions[s].route_id
        THEN route_permissions[k] - sessions[s].deleted[k[1]] + Count(sessions[s].role_ids, k[1])
        ELSE route_permissions[k]]

rows_after_failure_deleted(s) ==
    [k \in DOMAIN route_permissions |->
        IF k[2] = sessions[s].route_id
        THEN route_permissions[k] - sessions[s].deleted[k[1]]
        ELSE route_permissions[k]]

\* lines 439-442: db.rollback() undoes the DELETE
rows_after_rollback(s) == route_permissions

Finished(s, result) ==
    [pc |-> "done", route_id |-> sessions[s].route_id, role_ids |-> sessions[s].role_ids,
     result |-> result]

\* lines 401-442: the rows, the meta, db.commit(), db.refresh(route); an
\* SQLAlchemyError (the unique index, a deadlock, a lost connection, a route
\* that is gone when it is refreshed) is answered by rollback, raise.  The
\* rollback after a failed refresh undoes nothing: the commit is done.
set_route_permissions_commit(s) ==
    /\ sessions[s].pc = "set_route_permissions"
    /\ UNCHANGED <<roles, users, uix_role_route, permissions>>
    /\ \E error \in BOOLEAN :
           IF \/ error
              \/ /\ uix_role_route
                 /\ \E k \in DOMAIN route_permissions : rows_committed(s)[k] > 1
           THEN /\ route_permissions' = rows_after_rollback(s)
                /\ UNCHANGED routes
                /\ sessions' = [sessions EXCEPT ![s] = Finished(s, FALSE)]
                /\ response' = [op |-> "set_route_permissions", status |-> "raise",
                                result |-> FALSE, session |-> s, step |-> "commit"]
           ELSE /\ route_permissions' = rows_committed(s)
                /\ \E written \in meta_write_outcomes(sessions[s].meta) :
                       routes' = [routes EXCEPT ![sessions[s].route_id].meta =
                                     IF written
                                     THEN rewritten_meta(sessions[s].meta, sessions[s].role_ids)
                                     ELSE @]
                /\ \E refreshed \in BOOLEAN :
                       /\ sessions' = [sessions EXCEPT ![s] = Finished(s, refreshed)]
                       /\ response' = [op |-> "set_route_permissions",
                                       status |-> IF refreshed THEN "ok" ELSE "raise",
                                       result |-> refreshed, session |-> s,
                                       step |-> "refresh"]

\* RoleService.assign_user_roles lines 417-424: an exception of db.commit()
\* or of db.refresh(user) is answered by rollback, return None; the rollback
\* after a failed refresh undoes nothing
assign_user_roles_failed(user_id, role_ids) ==
    /\ user_id \in DOMAIN users
    /\ UNCHANGED <<roles, routes, route_permissions, uix_role_route, sessions, permissions>>
    /\ \E step \in {"commit", "refresh"} :
           /\ users' = IF step = "commit" THEN users
                       ELSE [users EXCEPT ![user_id].roles = assigned_roles(user_id, role_ids)]
           /\ response' = [op |-> "assign_user_roles", result |-> FALSE, step |-> step]

TxnRoleIdLists == {<<>>, <<2>>, <<MaxRole>>, <<2, 2>>, <<UnknownRoleId>>}

TxnMetas ==
    {MetaNone,
     MetaDict(Title, JStr(<<"QA", "READ">>), Absent, Absent, Absent),
     MetaDict(Title, JNull, JList(<<JStr(<<"2">>)>>), Absent, Absent),
     MetaDict(Title, JNull, JStr(<<"2">>), Absent, Absent)}

InitTxn ==
    /\ roles = SeedRoles
    /\ users = SeedUsers
    /\ routes \in [RouteIds -> [meta : TxnMetas]]
    /\ routes[2].meta.kind = "dict" /\ routes[2].meta.permission = JNull
    /\ route_permissions = [NoRows EXCEPT ![<<2, 1>>] = 1]
    /\ uix_role_route \in BOOLEAN
    /\ response = [op |-> "init"]
    /\ sessions = NoSessions
    /\ permissions = NoPermissions

\* one request at a time, and the migration while none is in flight; the
\* requests that overlap are those of SpecConcurrent
TxnSessions == {"s1"}

NextTxn ==
    \/ \E s \in TxnSessions, route_id \in TreeRouteIds, role_ids \in TxnRoleIdLists :
           set_route_permissions_begin(s, route_id, role_ids)
    \/ \E s \in TxnSessions : set_route_permissions_commit(s)
    \/ \E user_id \in UserIds, role_ids \in TxnRoleIdLists : assign_user_roles(user_id, role_ids)
    \/ \E user_id \in UserIds, role_ids \in TxnRoleIdLists :
           assign_user_roles_failed(user_id, role_ids)
    \/ /\ \A s \in SessionIds : sessions[s].pc # "set_route_permissions"
       /\ upgrade

SpecTxn == InitTxn /\ [][NextTxn]_vars

NextConcurrent ==
    \/ \E s \in SessionIds, route_id \in TreeRouteIds, role_ids \in TxnRoleIdLists :
           set_route_permissions_begin(s, route_id, role_ids)
    \/ \E s \in SessionIds : set_route_permissions_commit(s)

SpecConcurrent == InitTxn /\ [][NextConcurrent]_vars

\* the tables a resolver call reads
stored == <<users, routes, route_permissions>>

Failed(r) ==
    \/ r.op = "set_route_permissions" /\ r.status = "raise"
    \/ r.op = "assign_user_roles" /\ ~r.result
    \/ r.op = "upgrade" /\ r.status # "ok"

\* the rows of the migration are all there, or none
UpsertWhole ==
    \/ route_permissions' = route_permissions
    \/ /\ response'.op = "upgrade"
       /\ \A route_id \in DOMAIN routes :
              \A k \in missing_rows(route_id, route_migration(routes[route_id].meta).targets) :
                  route_permissions'[k] = route_permissions[k] + 1

\* the rows of the route are those of the call, or those before it
GrantsWhole ==
    \A s \in TxnSessions :
        sessions[s].pc = "set_route_permissions" /\ sessions'[s].pc = "done"
            => \/ route_permissions' = route_permissions
               \/ route_permissions' = rows_replaced(sessions[s].route_id, sessions[s].role_ids)

RolesWhole ==
    \/ users' = users
    \/ /\ response'.op = "assign_user_roles"
       /\ \E user_id \in DOMAIN users, role_ids \in TxnRoleIdLists :
              users' = [users EXCEPT ![user_id].roles = Range(role_ids) \cap DOMAIN roles]

\* C16 (as stated): assign_user_roles, set_route_permissions and upgrade are
\* all-or-nothing: when the operation fails at any step the stored roles of
\* the user, the rows of route_permissions and routes.meta are as before the
\* call, and no step commits a part of the operation's rows.
C16_FailureLeavesStoredState ==
    [][/\ Failed(response') => stored' = stored
       /\ GrantsWhole /\ RolesWhole
       /\ response'.op = "upgrade" => UpsertWhole]_vars

\* C16 (amended): every call leaves the stored state as it was or commits the
\* whole of its rows; a call that fails up to and at its commit leaves the
\* stored state as it was (upgrade has no later step); a call of
\* set_route_permissions or assign_user_roles that fails at the refresh after
\* its commit has stored its whole result.
C16_AllOrNothing ==
    [][/\ Failed(response') /\ response'.op = "upgrade" => stored' = stored
       /\ Failed(response') /\ response'.op # "upgrade" /\ response'.step = "commit"
              => stored' = stored
       /\ GrantsWhole /\ RolesWhole
       /\ response'.op = "upgrade" => UpsertWhole]_vars

C16_Witness ==
    /\ response.op = "set_route_permissions" /\ response.status = "raise"
    /\ response.step = "commit"
    /\ sessions[response.session] =
           [pc |-> "done", route_id |-> 1, role_ids |-> <<MaxRole>>, result |-> FALSE]
    /\ route_permissions[<<2, 1>>] = 1
    /\ route_permissions[<<MaxRole, 1>>] = 0

-----------------------------------------------------------------------------
(* Two calls of set_route_permissions that overlap *)

Succeeded(s) == sessions[s].pc = "done" /\ sessions[s].result

DescriptorNames(route_id, role_set) ==
    /\ routes[route_id].meta.kind = "dict"
    /\ routes[route_id].meta.allowed_roles.t = "list"
    /\ AllowedRoleIds(routes[route_id].meta) = role_set

\* C17: once two overlapping calls of set_route_permissions on one route,
\* with role_ids A and B, have both completed, the rows of the route name
\* exactly the roles of A or exactly those of B and allowed_roles of the meta
\* names the same roles; two calls on different routes each leave their own
\* roles on their route.
C17_LastWriterWins ==
    \A s \in SessionIds : \A t \in SessionIds \ {s} :
        Succeeded(s) /\ Succeeded(t) =>
            IF sessions[s].route_id = sessions[t].route_id
            THEN /\ GrantedTo(sessions[s].route_id) \in
                        {Range(sessions[s].role_ids), Range(sessions[t].role_ids)}
                 /\ DescriptorNames(sessions[s].route_id, GrantedTo(sessions[s].route_id))
            ELSE /\ GrantedTo(sessions[s].route_id) = Range(sessions[s].role_ids)
                 /\ DescriptorNames(sessions[s].route_id, Range(sessions[s].role_ids))

-----------------------------------------------------------------------------
(* The failures of upgrade *)

Migrated(route_id) ==
    \A r \in route_migration(routes[route_id].meta).targets :
        route_permissions[<<r, route_id>>] > 0

\* C18: when upgrade fails on one route it does not raise on that failure, and
\* the rows of every other route it can migrate are created and kept.
C18_MigratorContinuesAfterFailure ==
    response.op = "upgrade" =>
        /\ response.status # "raise"
        /\ \A route_id \in DOMAIN routes :
               route_migration(routes[route_id].meta).status = "ok" => Migrated(route_id)

-----------------------------------------------------------------------------
(* Properties of assign_user_roles *)

\* C21: a step of assign_user_roles(user, role_ids) on an existing user that
\* succeeds leaves the user with exactly the roles of role_ids that exist:
\* every role held before and not named is removed, an unknown id is skipped
\* and the call still succeeds, every known id is held.
C21_RolesReplaced ==
    [][response'.op = "assign_user_roles" /\ response'.result =>
           \A user_id \in DOMAIN users, role_ids \in TxnRoleIdLists :
               assign_user_roles(user_id, role_ids) =>
                   /\ users'[user_id].roles =
                          {r \in DOMAIN roles : \E i \in DOMAIN role_ids : role_ids[i] = r}
                   /\ (users[user_id].roles \ Range(role_ids)) \cap users'[user_id].roles = {}
                   /\ \A u \in DOMAIN users \ {user_id} : users'[u] = users[u]]_vars

C21_Witness ==
    /\ response.op = "assign_user_roles" /\ response.result
    /\ users["alice"].roles = {MaxRole}
    /\ SeedUsers["alice"].roles # {MaxRole}

-----------------------------------------------------------------------------
(* services/permission_service.py: PermissionService *)

MaxPermissions == 4

ADMIN_ROLE == "administrator"

is_valid_module_any(module) == TRUE

\* models/permission.py lines 38-41
is_valid_module(module) == module \in Module \/ module = "ALL"

\* create_permission, lines 29-44: ValueError, or the row is added
create_permission(module, level, department_id) ==
    /\ Len(permissions) < MaxPermissions
    /\ UNCHANGED <<roles, users, routes, route_permissions, uix_role_route, sessions>>
    /\ IF ~is_valid_module(module)
       THEN /\ response' = [op |-> "create_permission", status |-> "ValueError",
                            detail |-> "module", module |-> module, level |-> level]
            /\ UNCHANGED permissions
       ELSE IF level \notin PermissionLevel
       THEN /\ response' = [op |-> "create_permission", status |-> "ValueError",
                            detail |-> "level", module |-> module, level |-> level]
            /\ UNCHANGED permissions
       ELSE /\ permissions' = Append(permissions, Perm(module, level, department_id))
            /\ response' = [op |-> "create_permission", status |-> "ok",
                            detail |-> "", module |-> module, level |-> level]

\* POST /permissions of apis/permission.py, lines 25-61
api_create_permission(user_id, module, level, department_id) ==
    /\ Len(permissions) < MaxPermissions
    /\ UNCHANGED <<roles, users, routes, route_permissions, uix_role_route, sessions>>
    /\ IF ~may_administer(user_id)
       THEN /\ response' = [op |-> "create_permission", status |-> "403",
                            detail |-> "", module |-> module, level |-> level]
            /\ UNCHANGED permissions
       ELSE IF module # "ALL" /\ module \notin Module
       THEN /\ response' = [op |-> "create_permission", status |-> "400",
                            detail |-> "module", module |-> module, level |-> level]
            /\ UNCHANGED permissions
       ELSE IF level \notin PermissionLevel
       THEN /\ response' = [op |-> "create_permission", status |-> "400",
                            detail |-> "level", module |-> module, level |-> level]
            /\ UNCHANGED permissions
       ELSE create_permission(module, level, department_id)

\* ensure_route_permissions, lines 96-137: the role is looked up by its name
\* and created when missing; a permission of the module ROUTE is looked up
\* among the permissions joined to that role through role_permission, and
\* created, without a row of role_permission, when none is found
RequiredLevels == <<"READ", "ADMIN">>

ensure_route_permissions ==
    LET with_admin == IF get_role_by_name(ADMIN_ROLE) = {}
                      THEN [r \in DOMAIN roles \cup {NextRoleId} |->
                               IF r \in DOMAIN roles THEN roles[r]
                               ELSE [name |-> ADMIN_ROLE, permissions |-> {}]]
                      ELSE roles
        admin_role == CHOOSE r \in DOMAIN with_admin : with_admin[r].name = ADMIN_ROLE
        found(level) == \E p \in with_admin[admin_role].permissions :
                            p.module = "ROUTE" /\ p.level = level
        created == SelectSeq(RequiredLevels, LAMBDA level : ~found(level))
    IN  /\ Len(permissions) + Len(created) <= MaxPermissions
        /\ roles' = with_admin
        /\ permissions' = permissions \o [i \in 1..Len(created) |-> Perm("ROUTE", created[i], None)]
        /\ response' = [op |-> "ensure_route_permissions", created |-> Len(created),
                        again |-> response.op = "ensure_route_permissions"]
        /\ UNCHANGED <<users, routes, route_permissions, uix_role_route, sessions>>

RequestModules == {"QA", "ALL", "qa", "WAREHOUSE"}
RequestLevels == {"READ", "SUPER_ADMIN", "read", "OWNER"}

AdminRoles ==
    {{}, {Perm("ROUTE", "READ", None)},
     {Perm("ROUTE", "READ", None), Perm("ROUTE", "ADMIN", None)}}

InitLedger ==
    /\ \/ roles = [r \in {1} |-> SeedRoles[r]]
       \/ \E held \in AdminRoles :
              roles = [r \in {1, 2} |-> IF r = 1 THEN SeedRoles[r]
                                        ELSE [name |-> ADMIN_ROLE, permissions |-> held]]
    /\ users = [u \in UserIds |->
                   [is_active |-> TRUE, department_id |-> "D1",
                    roles |-> IF u = "admin" THEN {1} ELSE {}]]
    /\ routes = [route_id \in {1} |-> [meta |-> MetaNone]]
    /\ route_permissions = NoRows
    /\ uix_role_route = TRUE
    /\ response = [op |-> "init"]
    /\ sessions = NoSessions
    /\ permissions = NoPermissions

NextLedger ==
    \/ \E module \in RequestModules, level \in RequestLevels :
           create_permission(module, level, None)
    \/ \E user_id \in UserIds, module \in RequestModules, level \in RequestLevels :
           api_create_permission(user_id, module, level, None)
    \/ ensure_route_permissions

SpecLedger == InitLedger /\ [][NextLedger]_vars

\* C22: a create of a Permission whose module is neither a known module nor
\* "ALL", or whose level is none of READ, WRITE, ADMIN, SUPER_ADMIN, by a
\* caller allowed to create, fails with an error that names the module or the
\* level that is wrong and adds no row; no row of the table holds such a value.
C22_InvalidPermissionRejected ==
    [][/\ response'.op = "create_permission" /\ response'.status # "403"
          /\ (response'.module \notin Module \/ response'.level \notin PermissionLevel)
          => /\ response'.status \in {"400", "ValueError"}
             /\ permissions' = permissions
             /\ response'.detail = "module" => response'.module \notin Module
             /\ response'.detail = "level" => response'.level \notin PermissionLevel
             /\ response'.detail \in {"module", "level"}
       /\ \A i \in DOMAIN permissions' :
              permissions'[i].module \in Module /\ permissions'[i].level \in PermissionLevel]_vars

C22_Witness ==
    /\ response.op = "create_permission" /\ response.status = "400"
    /\ response.detail = "level" /\ response.level = "read"
    /\ Len(permissions) > 0

\* C29: an invocation of ensure_route_permissions that follows another one
\* adds no row to permissions and no role.
C29_EnsureIdempotent ==
    [][response'.op = "ensure_route_permissions" /\ response'.again
           => permissions' = permissions /\ roles' = roles]_vars

-----------------------------------------------------------------------------
(* services/route_service.py: get_route_permissions *)

\* lines 328-333: [int(r) for r in allowed_roles if str(r).isdigit()]; a str
\* is read character by character, an int or a bool raises TypeError
backfill_role_ids(allowed_roles) ==
    CASE allowed_roles.t = "list" ->
           {int(str(allowed_roles.items[i])) :
               i \in {j \in 1..Len(allowed_roles.items) : isdigit(str(allowed_roles.items[j]))}}
      [] allowed_roles.t = "str" ->
           IF isdigit(allowed_roles.parts) THEN {int(allowed_roles.parts)} ELSE {}
      [] OTHER -> {}

\* lines 317-345: when the route has no row and meta["allowed_roles"] is truthy,
\* one row is added for every role the query of line 336 finds
backfilled(route_id) ==
    LET meta == loads_or_empty(routes[route_id].meta)
    IN  IF /\ \A r \in RoleIds : route_permissions[<<r, route_id>>] = 0
           /\ Truthy(routes[route_id].meta)
           /\ meta.kind = "dict"
           /\ JTruthy(meta.allowed_roles)
        THEN backfill_role_ids(meta.allowed_roles) \cap DOMAIN roles
        ELSE {}

get_route_permissions(route_id) ==
    /\ UNCHANGED <<roles, users, routes, uix_role_route, sessions, permissions>>
    /\ IF route_id \notin DOMAIN routes
       THEN /\ response' = [op |-> "get_route_permissions", result |-> {}]
            /\ UNCHANGED route_permissions
       ELSE /\ route_permissions' =
                   [k \in DOMAIN route_permissions |->
                       IF k[2] = route_id /\ k[1] \in backfilled(route_id)
                       THEN route_permissions[k] + 1
                       ELSE route_permissions[k]]
            /\ response' = [op |-> "get_route_permissions",
                            result |-> {r \in DOMAIN roles : route_permissions'[<<r, route_id>>] > 0}]

GrantMetas ==
    LegacyMetas \cup
    {MetaDict(Title, JNull, JList(<<JStr(<<"2">>), JStr(<<"2">>)>>), Absent, Absent),
     MetaDict(Title, JNull, JInt(2), Absent, Absent),
     MetaDict(Title, JNull, JList(<<JStr(<<RoleNames[2]>>)>>), Absent, Absent),
     MetaDict(Title, JObj("QA", "WRITE", None, JList(<<JStr(<<"3">>)>>)), Absent, Absent, Absent),
     MetaStr(MetaDict(Title, JNull, JList(<<JInt(MaxRole)>>), Absent, Absent))}

InitGrants ==
    /\ roles = SeedRoles
    /\ users = SeedUsers
    /\ routes \in [{1} -> [meta : GrantMetas]]
    /\ route_permissions = NoRows
    /\ uix_role_route \in BOOLEAN
    /\ response = [op |-> "init"]
    /\ sessions = NoSessions
    /\ permissions = NoPermissions

NextGrants ==
    \/ \E route_id \in RouteIds, role_ids \in RoleIdLists :
           set_route_permissions(route_id, role_ids)
    \/ upgrade
    \/ \E route_id \in RouteIds : get_route_permissions(route_id)
    \/ \E role_id \in RoleIds : delete_role(role_id)

SpecGrants == InitGrants /\ [][NextGrants]_vars

\* C23: in every state reached by calls of set_route_permissions (role_ids may
\* name a role twice), runs of upgrade and reads of get_route_permissions, a
\* pair (role_id, route_id) has at most one row in route_permissions.
C23_GrantRowsUnique ==
    \A k \in DOMAIN route_permissions : route_permissions[k] <= 1

\* meta as set_route_permissions writes it (lines 417-424)
WrittenBySet(route_id) ==
    /\ routes[route_id].meta.kind = "dict"
    /\ routes[route_id].meta.isRoleBased = JBool(TRUE)
    /\ routes[route_id].meta.public = JBool(FALSE)
    /\ routes[route_id].meta.allowed_roles.t = "list"

\* C24: for every route whose meta set_route_permissions has written, the
\* roles of its rows in route_permissions are the roles of allowed_roles of
\* its meta, whatever upgrade, get_route_permissions and delete_role did since.
C24_RowsMirroredInDescriptor ==
    \A route_id \in DOMAIN routes :
        WrittenBySet(route_id) =>
            GrantedTo(route_id) = AllowedRoleIds(routes[route_id].meta)

\* C25: a run of upgrade changes no decision of check_route_access: every
\* active user is granted a route right after the run exactly if the user was
\* granted it right before, whatever shape the descriptor of the route has.
C25_ReconciliationKeepsAccess ==
    [][response'.op = "upgrade" /\ response'.status = "ok" =>
           \A route_id \in DOMAIN routes, user \in Principals :
               user.is_active =>
                   check_route_access(user, route_id).has_access
                       = (check_route_access(user, route_id).has_access)']_vars

-----------------------------------------------------------------------------
(* check_route_access and has_permission on descriptors and levels that the
   schema does not know *)

UnknownLevels == {"OWNER", None}

DecodeFields ==
    { JStr(<<"QA", "READ", "D1">>),
      JStr(<<"QA", "OWNER">>),
      JObj("QA", "OWNER", None, Absent),
      JObj("QA", None, "D2", Absent),
      JObj(None, "READ", None, Absent),
      JInt(1) }

DecodeMetas ==
    {MetaDict(Title, permission, allowed_roles, Absent, Absent) :
        permission \in DecodeFields, allowed_roles \in {Absent, JStr(<<"2">>), JInt(2)}}

DecodeRoles ==
    {[r \in RoleIds |->
        [name |-> RoleNames[r],
         permissions |-> IF RoleNames[r] = SUPER_ADMIN_ROLE
                         THEN {Perm("ALL", "SUPER_ADMIN", None)}
                         ELSE IF r = 2 THEN p2 ELSE {}]] :
        p2 \in {{}, {Perm("QA", "READ", None)}, {Perm("ALL", "READ", "D2")},
                {Perm("USER", "ADMIN", None)}}}

InitDecode ==
    /\ roles \in DecodeRoles
    /\ users \in [{"alice"} -> [is_active : {TRUE}, department_id : {"D1"}, roles : {{}}]]
    /\ routes \in [{1} -> [meta : DecodeMetas]]
    /\ route_permissions = NoRows
    /\ uix_role_route = TRUE
    /\ response = [op |-> "init"]
    /\ sessions = NoSessions
    /\ permissions = NoPermissions

NextDecode ==
    \/ \E user_id \in UserIds, role_ids \in {<<>>, <<1>>, <<2>>, <<MaxRole>>} :
           assign_user_roles(user_id, role_ids)
    \/ \E user_id \in UserIds, route_id \in RouteIds : get_check_route_access(user_id, route_id)
    \/ \E user_id \in UserIds, module \in {"QA"}, level \in UnknownLevels,
          target_department_id \in {None, "D1"} :
           check_permission(user_id, module, level, target_department_id)

SpecDecode == InitDecode /\ [][NextDecode]_vars

\* C27: for every existing route and every content of its meta,
\* check_route_access returns a decision with a reason and raises nothing.
C27_ResolverNeverRaises ==
    \A u \in DOMAIN users, route_id \in DOMAIN routes :
        /\ check_route_access(users[u], route_id).status = "ok"
        /\ check_route_access(users[u], route_id).reason # "raised"

\* lines 65-68 of models/user.py: the department test of has_permission
DepartmentPermits(user, permission, target_department_id) ==
    \/ permission.department_id = None
    \/ target_department_id = None
    \/ permission.department_id = target_department_id
    \/ permission.department_id = user.department_id

HoldsOn(user, module, target_department_id) ==
    \E permission \in held_permissions(user) :
        OnModule(permission, module) /\ DepartmentPermits(user, permission, target_department_id)

\* the level a descriptor requires is none of the four
NamesUnknownLevel(permission) ==
    \/ permission.t = "obj" /\ permission.level \notin PermissionLevel
    \/ permission.t = "str" /\ Len(permission.parts) = 2
                            /\ permission.parts[2] \notin PermissionLevel

RequiredModule(permission) ==
    IF permission.t = "obj" THEN permission.module ELSE permission.parts[1]

RequiredDepartment(permission) ==
    IF permission.t = "obj" THEN permission.departmentId ELSE None

\* C30: a level that is none of READ, WRITE, ADMIN, SUPER_ADMIN, an absent
\* level included, has the value 0; has_permission grants a request for such
\* a level to every user who holds a permission, of any level, on the module
\* or on ALL whose department test passes, and check_route_access grants that
\* user a route whose object or MODULE:LEVEL permission names such a level.
C30_UnknownLevelRanksLowest ==
    /\ \A level \in UnknownLevels : get_level_value(level) = 0
    /\ \A u \in DOMAIN users, module \in {"QA", "USER"}, level \in UnknownLevels,
          target_department_id \in DeptIds \cup {None} :
           HoldsOn(users[u], module, target_department_id)
               => has_permission(users[u], module, level, target_department_id)
    /\ \A u \in DOMAIN users, route_id \in DOMAIN routes :
           LET permission == routes[route_id].meta.permission
           IN  /\ NamesUnknownLevel(permission)
               /\ HoldsOn(users[u], RequiredModule(permission), RequiredDepartment(permission))
               => /\ check_route_access(users[u], route_id).status = "ok"
                  /\ check_route_access(users[u], route_id).has_access

\* a user who holds QA at level READ only is granted a route that asks for
\* QA at the level OWNER
C30_Witness ==
    /\ response.op = "check_route_access"
    /\ response.route_id \in DOMAIN routes
    /\ routes[response.route_id].meta.permission = JStr(<<"QA", "OWNER">>)
    /\ held_permissions(users[response.user_id]) = {Perm("QA", "READ", None)}
    /\ response.access = Access(TRUE, "has_string_permission")

-----------------------------------------------------------------------------
(* set_route_permissions that is refused *)

\* the handler returned False: the route does not exist or an id is no role
SetRefused(r) == r.op = "set_route_permissions" /\ r.status = "ok" /\ ~r.result

\* C28: set_route_permissions(route, role_ids) for a route that does not exist
\* or with an id that is no role reports failure and leaves the rows of
\* route_permissions and the meta of every route as they were: no row is
\* deleted and none is added for the ids that are roles.
C28_RefusedSetChangesNothing ==
    [][SetRefused(response') => route_permissions' = route_permissions /\ routes' = routes]_vars

C28_Witness ==
    /\ SetRefused(response)
    /\ GrantedTo(1) \ super_admin_ids # {}


-----------------------------------------------------------------------------
(* services/route_service.py lines 69-291 and apis/route.py lines 71-184,   *)
(* 294-326: create, update, patch and delete of routes                       *)

\* the meta create_route and update_route store when the request carries
\* none: {"permissions": []}, a non-empty dict with none of the keys the
\* access resolver reads (the title field stands for that other key)
PermissionsOnly == MetaDict(Title, Absent, Absent, Absent, Absent)

\* models/route.py line 19: parent_id is a foreign key to routes.id, so the
\* store rejects a row whose parent_id names no route (IntegrityError)
parent_fk_holds(parent_id) == parent_id = NoParent \/ parent_id \in DOMAIN routes

\* the rows of route_permissions with a deleted route go with it
\* (models/route.py: cascade="all, delete-orphan")
rows_without_route(route_id) ==
    [k \in DOMAIN route_permissions |-> IF k[2] = route_id THEN 0 ELSE route_permissions[k]]

Refusal(op, code) == [op |-> op, status |-> code, result |-> FALSE]

\* apis/route.py lines 71-101 and RouteService.create_route
create_route(user_id, parent_id, sort_order) ==
    /\ UNCHANGED <<roles, users, route_permissions, uix_role_route, sessions, permissions>>
    /\ IF ~has_permission(users[user_id], "ROUTE", "ADMIN", None)
       THEN /\ response' = Refusal("create_route", "403")
            /\ UNCHANGED routes
       ELSE IF ~parent_fk_holds(parent_id)
       THEN /\ response' = Refusal("create_route", "raise")
            /\ UNCHANGED routes
       ELSE \E id \in TreeRouteIds \ DOMAIN routes :
                /\ routes' = [r \in DOMAIN routes \cup {id} |->
                                 IF r = id
                                 THEN [meta |-> PermissionsOnly, parent_id |-> parent_id,
                                       sort_order |-> sort_order]
                                 ELSE routes[r]]
                /\ response' = [op |-> "create_route", status |-> "ok", result |-> TRUE]

\* lines 148-155: a route without meta gets {"permissions": []}
meta_after_update(meta) == IF Truthy(meta) THEN meta ELSE PermissionsOnly

\* apis/route.py lines 103-148 and RouteService.update_route with a request
\* that sets parent_id
update_route(user_id, route_id, parent_id) ==
    /\ UNCHANGED <<roles, users, route_permissions, uix_role_route, sessions, permissions>>
    /\ IF ~has_permission(users[user_id], "ROUTE", "ADMIN", None)
       THEN /\ response' = Refusal("update_route", "403")
            /\ UNCHANGED routes
       ELSE IF route_id \notin DOMAIN routes
       THEN /\ response' = Refusal("update_route", "404")
            /\ UNCHANGED routes
       ELSE IF ~parent_fk_holds(parent_id)
       THEN /\ response' = Refusal("update_route", "raise")
            /\ UNCHANGED routes
       ELSE /\ routes' = [routes EXCEPT ![route_id].parent_id = parent_id,
                                        ![route_id].meta = meta_after_update(@)]
            /\ response' = [op |-> "update_route", status |-> "ok", result |-> TRUE]

\* apis/route.py lines 294-326 and RouteService.patch_route with the body
\* {"parent_id": parent_id}
patch_route(user_id, route_id, parent_id) ==
    /\ UNCHANGED <<roles, users, route_permissions, uix_role_route, sessions, permissions>>
    /\ IF ~has_permission(users[user_id], "ROUTE", "ADMIN", None)
       THEN /\ response' = Refusal("patch_route", "403")
            /\ UNCHANGED routes
       ELSE IF route_id \notin DOMAIN routes
       THEN /\ response' = Refusal("patch_route", "404")
            /\ UNCHANGED routes
       ELSE IF ~parent_fk_holds(parent_id)
       THEN /\ response' = Refusal("patch_route", "raise")
            /\ UNCHANGED routes
       ELSE /\ routes' = [routes EXCEPT ![route_id].parent_id = parent_id]
            /\ response' = [op |-> "patch_route", status |-> "ok", result |-> TRUE]

\* apis/route.py lines 150-184 and RouteService.delete_route
delete_route(user_id, route_id) ==
    /\ UNCHANGED <<roles, users, uix_role_route, sessions, permissions>>
    /\ IF ~has_permission(users[user_id], "ROUTE", "ADMIN", None)
       THEN /\ response' = Refusal("delete_route", "403")
            /\ UNCHANGED <<routes, route_permissions>>
       ELSE IF route_id \notin DOMAIN routes
       THEN /\ response' = Refusal("delete_route", "404")
            /\ UNCHANGED <<routes, route_permissions>>
       ELSE IF \E child \in DOMAIN routes : routes[child].parent_id = route_id
       THEN /\ response' = Refusal("delete_route", "500")
            /\ UNCHANGED <<routes, route_permissions>>
       ELSE /\ routes' = [r \in DOMAIN routes \ {route_id} |-> routes[r]]
            /\ route_permissions' = rows_without_route(route_id)
            /\ response' = [op |-> "delete_route", status |-> "ok", result |-> TRUE]

ParentIds == TreeRouteIds \cup {NoParent}

\* a catalog of one root route, with one grant on it
InitCatalog ==
    /\ roles = SeedRoles
    /\ users = SeedUsers
    /\ routes \in [{1} -> [meta : {MetaNone, PermissionsOnly},
                           parent_id : {NoParent},
                           sort_order : SortOrders]]
    /\ route_permissions = [k \in RoleIds \X TreeRouteIds |-> IF k = <<MaxRole, 1>> THEN 1 ELSE 0]
    /\ uix_role_route = TRUE
    /\ response = [op |-> "init"]
    /\ sessions = NoSessions
    /\ permissions = NoPermissions

NextCatalog ==
    \/ \E user_id \in DOMAIN users, parent_id \in ParentIds, sort_order \in SortOrders :
           create_route(user_id, parent_id, sort_order)
    \/ \E user_id \in DOMAIN users, route_id \in TreeRouteIds, parent_id \in ParentIds :
           update_route(user_id, route_id, parent_id)
    \/ \E user_id \in DOMAIN users, route_id \in TreeRouteIds, parent_id \in ParentIds :
           patch_route(user_id, route_id, parent_id)
    \/ \E user_id \in DOMAIN users, route_id \in TreeRouteIds :
           delete_route(user_id, route_id)

SpecCatalog == InitCatalog /\ [][NextCatalog]_vars

\* the routes reached from a route by following parent_id at least once
RECURSIVE ancestors(_, _)
ancestors(route_id, depth) ==
    IF depth = 0 \/ route_id \notin DOMAIN routes \/ routes[route_id].parent_id = NoParent
    THEN {}
    ELSE {routes[route_id].parent_id} \cup ancestors(routes[route_id].parent_id, depth - 1)

\* C26: after any sequence of route create, update, patch and delete
\* operations the parent relation is a well-formed forest: every parent_id
\* that is not null names an existing route, and no route is its own ancestor.
C26_ParentRelationIsForest ==
    \A route_id \in DOMAIN routes :
        /\ parent_fk_holds(routes[route_id].parent_id)
        /\ route_id \notin ancestors(route_id, Cardinality(DOMAIN routes))

====
